---- MODULE Spec2Model ----
(***************************************************************************)
(* SharkV1 shop bot (src/bot.py): the per-user order draft state machine   *)
(* (context.user_data), the orders and support_tickets tables, and the     *)
(* handlers registered in build_application.                               *)
(*                                                                         *)
(* Python values:                                                          *)
(*   dict            a function whose DOMAIN is the set of keys present    *)
(*   Optional[str]   None is <<>>, a present value x is <<x>>              *)
(*   message text    a sequence of characters, so that str.strip() is      *)
(*                   computed and not assumed                              *)
(*   callback data   "cat:value" is the pair <<cat, value>>                *)
(***************************************************************************)
EXTENDS Integers, Sequences, FiniteSets, TLC

VARIABLES
    user_data,  \* context.user_data of every user: user id -> dict
    orders,     \* rows of table orders, in insertion order
    tickets,    \* rows of table support_tickets, in insertion order
    update,     \* the update handled last
    reply,      \* the text sent in answer to it
    shown,      \* the order rows listed in that answer (menu:orders)
    error,      \* the exception the handler raised, as on_error logs it ("" if none)
    script,     \* a fixed sequence of updates to deliver, and the position in it
    tasks       \* handler coroutines running concurrently: task -> its position

vars == <<user_data, orders, tickets, update, reply, shown, error, script, tasks>>

-----------------------------------------------------------------------------
(* Bounds of the model *)

MaxOrders == 1
MaxTickets == 1
\* Rows of the orders table when listing a user's orders.
MaxListed == 22
MaxConfirms == 2

Users == {1}
\* The users when two of them are served.
TwoUsers == {1, 2}

\* Button clicks that can arrive, stale or forged keyboards included.
ClickProducts == {"Netflix", "Spotify", "Hulu"}
ClickDurations == {"30 days", "90 days"}
ClickAccounts == {"VIP", "Gold"}
MenuActions == {"home", "order", "orders", "profile", "support", "offers", "how"}
BackActions == {"products", "durations", "account_types", "details"}

\* Texts of text messages (filters.TEXT passes only a non-empty text).
Texts == {<<" ">>, <<" ", "a", " ">>}
\* Photo messages: the file ids of the PhotoSize list, smallest first.
Photos == {<<"small", "large">>}

-----------------------------------------------------------------------------
(* Constants of the program *)

CATALOG ==
    [p \in {"Netflix", "YouTube Premium", "Spotify", "ChatGPT Plus"} |->
        CASE p = "Netflix" -> ("1 day" :> 5 @@ "7 days" :> 20 @@ "30 days" :> 60)
          [] p = "YouTube Premium" -> ("1 day" :> 4 @@ "7 days" :> 15 @@ "30 days" :> 45)
          [] p = "Spotify" -> ("1 day" :> 3 @@ "7 days" :> 12 @@ "30 days" :> 35)
          [] p = "ChatGPT Plus" -> ("1 day" :> 6 @@ "7 days" :> 25 @@ "30 days" :> 80)]

ACCOUNT_TYPES == <<"Basic", "Premium", "VIP">>

OrdersLimit == 20

-----------------------------------------------------------------------------
(* Python values *)

None == <<>>
Some(x) == <<x>>

EmptyDict == [k \in {} |-> None]
Pop(d, k) == [x \in DOMAIN d \ {k} |-> d[x]]
Put(d, k, v) == [x \in DOMAIN d \cup {k} |-> IF x = k THEN v ELSE d[x]]

\* not d.get(k), for a key holding a plain str
FalsyStr(d, k) == k \notin DOMAIN d \/ d[k] = ""
\* not d.get(k), for a key holding an Optional text (sequence of characters)
FalsyText(d, k) == k \notin DOMAIN d \/ d[k] = None \/ d[k] = Some(<<>>)
\* not d.get(k), for a key holding an Optional file id
FalsyId(d, k) == k \notin DOMAIN d \/ d[k] = None \/ d[k] = Some("")
\* d.get(k), for an Optional value
GetOpt(d, k) == IF k \in DOMAIN d THEN d[k] ELSE None

IsSpace(c) == c = " "

RECURSIVE LStrip(_)
LStrip(s) == IF s # <<>> /\ IsSpace(Head(s)) THEN LStrip(Tail(s)) ELSE s

RECURSIVE RStrip(_)
RStrip(s) ==
    IF s # <<>> /\ IsSpace(s[Len(s)]) THEN RStrip(SubSeq(s, 1, Len(s) - 1)) ELSE s

StripIdentity(s) == s
\* str.strip()
Strip(s) == RStrip(LStrip(s))

Range(s) == {s[i] : i \in DOMAIN s}

-----------------------------------------------------------------------------
(* Database layer.  A table is the sequence of its rows in insertion order; *)
(* rows are never deleted, so AUTOINCREMENT gives row number Len + 1.       *)
(* username and created_at are left out: no handler reads them.             *)

save_order_swapped(ords, user_id, product, duration, account_type, details_text, details_file_id) ==
    Append(ords, [id |-> Len(ords) + 1,
                  user_id |-> user_id,
                  product |-> product,
                  duration |-> duration,
                  account_type |-> account_type,
                  details_text |-> details_file_id,
                  details_file_id |-> details_text,
                  status |-> "pending"])

save_order_replaces(ords, user_id, product, duration, account_type, details_text, details_file_id) ==
    LET row(i) == [id |-> i, user_id |-> user_id, product |-> product,
                   duration |-> duration, account_type |-> account_type,
                   details_text |-> details_text,
                   details_file_id |-> details_file_id, status |-> "pending"]
    IN  IF ords = <<>> THEN <<row(1)>> ELSE [ords EXCEPT ![Len(ords)] = row(Len(ords))]

save_order(ords, user_id, product, duration, account_type, details_text, details_file_id) ==
    Append(ords, [id |-> Len(ords) + 1,
                  user_id |-> user_id,
                  product |-> product,
                  duration |-> duration,
                  account_type |-> account_type,
                  details_text |-> details_text,
                  details_file_id |-> details_file_id,
                  status |-> "pending"])

Reverse(s) == [i \in 1..Len(s) |-> s[Len(s) + 1 - i]]

\* SELECT id, product, duration, status
Columns(r) == [id |-> r.id, product |-> r.product, duration |-> r.duration, status |-> r.status]

get_user_orders_oldest(ords, user_id) ==
    LET mine == SelectSeq(ords, LAMBDA r : r.user_id = user_id)
        first == SubSeq(mine, 1, IF Len(mine) < OrdersLimit THEN Len(mine) ELSE OrdersLimit)
        desc == Reverse(first)
    IN  [i \in 1..Len(desc) |-> Columns(desc[i])]

\* WHERE user_id = ? ORDER BY id DESC LIMIT 20
get_user_orders(ords, user_id) ==
    LET mine == SelectSeq(ords, LAMBDA r : r.user_id = user_id)
        desc == Reverse(mine)
        top == SubSeq(desc, 1, IF Len(desc) < OrdersLimit THEN Len(desc) ELSE OrdersLimit)
    IN  [i \in 1..Len(top) |-> Columns(top[i])]

get_profile_counts(ords, user_id) ==
    <<Len(SelectSeq(ords, LAMBDA r : r.user_id = user_id)),
      Len(SelectSeq(ords, LAMBDA r : r.user_id = user_id /\ r.status = "approved"))>>

save_ticket(tks, user_id, message_text) ==
    Append(tks, [id |-> Len(tks) + 1,
                 user_id |-> user_id,
                 message_text |-> message_text,
                 status |-> "open"])

-----------------------------------------------------------------------------
(* State helpers.  ud is one user's context.user_data.                     *)

\* context.user_data.setdefault("draft", {}): the dict with the key ensured
get_draft(ud) == IF "draft" \in DOMAIN ud THEN ud ELSE Put(ud, "draft", EmptyDict)

clear_flow_keeps_mode(ud) == Pop(ud, "draft")

clear_flow_keeps_draft(ud) == Pop(ud, "mode")

clear_flow(ud) == Pop(Pop(ud, "mode"), "draft")

\* context.user_data.get("mode") == m
ModeIs(ud, m) == "mode" \in DOMAIN ud /\ ud["mode"] = m

\* What a handler returns: the user's user_data, the tables, the text sent;
\* rows are the order rows listed in the text, error the exception raised.
Result(ud, ords, tks, text) ==
    [ud |-> ud, orders |-> ords, tickets |-> tks, reply |-> text,
     rows |-> <<>>, error |-> ""]

-----------------------------------------------------------------------------
(* Handlers.  Each is the whole handler as a function of the user's         *)
(* user_data ud, the tables and the update's payload.                       *)

start(ud, ords, tks) == Result(clear_flow(ud), ords, tks, "WELCOME_TEXT")

menu_router(ud, ords, tks, user_id, action) ==
    CASE action = "home" ->
            Result(clear_flow(ud), ords, tks, "WELCOME_TEXT")
      [] action = "order" ->
            Result(Put(clear_flow(ud), "draft", EmptyDict), ords, tks, "Select a product:")
      [] action = "orders" ->
            [Result(ud, ords, tks,
                    IF get_user_orders(ords, user_id) = <<>>
                    THEN "You have no orders yet."
                    ELSE "Your last 20 orders")
                EXCEPT !.rows = get_user_orders(ords, user_id)]
      [] action = "profile" ->
            Result(ud, ords, tks, "Profile")
      [] action = "support" ->
            Result(Put(ud, "mode", "support"), ords, tks, "Support: type your issue")
      [] action = "offers" -> Result(ud, ords, tks, "Special Offers")
      [] action = "how" -> Result(ud, ords, tks, "How it works")
      [] OTHER -> Result(ud, ords, tks, "")

back_to_details_discards(ud) ==
    Put(Put(ud, "draft", Pop(Pop(ud["draft"], "details_text"), "details_file_id")),
        "mode", "order_details")

\* back:details: context.user_data["mode"] = "order_details"
back_to_details(ud) == Put(ud, "mode", "order_details")

back_router(ud, ords, tks, action) ==
    LET ud1 == get_draft(ud)
        draft == ud1["draft"]
    IN  CASE action = "products" -> Result(ud1, ords, tks, "Select a product:")
          [] action = "durations" ->
                Result(ud1, ords, tks,
                       IF FalsyStr(draft, "product")
                       THEN "Select a product:" ELSE "Select duration:")
          [] action = "account_types" -> Result(ud1, ords, tks, "Select account type:")
          [] action = "details" ->
                Result(back_to_details(ud1), ords, tks,
                       "Send details (text) or upload photo")
          [] OTHER -> Result(ud1, ords, tks, "")

any_product_valid(product) == TRUE

\* product in CATALOG
product_valid(product) == product \in DOMAIN CATALOG

on_product(ud, ords, tks, product) ==
    IF ~product_valid(product)
    THEN Result(ud, ords, tks, "Invalid product. Please choose again.")
    ELSE LET ud1 == get_draft(ud)
             draft == Pop(Pop(Pop(Pop(Put(ud1["draft"], "product", product),
                          "duration"), "account_type"), "details_text"), "details_file_id")
         IN  Result(Put(ud1, "draft", draft), ords, tks, "Select duration:")

any_duration_valid(product, duration) == TRUE

\* duration in CATALOG[product]
duration_valid(product, duration) == duration \in DOMAIN CATALOG[product]

on_duration_keeps_detail(ud, ords, tks, duration) ==
    LET ud1 == get_draft(ud)
        draft == ud1["draft"]
    IN  IF FalsyStr(draft, "product") \/ ~product_valid(draft["product"])
        THEN Result(ud1, ords, tks, "Please select a product first.")
        ELSE IF ~duration_valid(draft["product"], duration)
        THEN Result(ud1, ords, tks, "Invalid duration. Please choose again.")
        ELSE Result(Put(ud1, "draft", Pop(Put(draft, "duration", duration), "account_type")),
                    ords, tks, "Select account type:")

on_duration(ud, ords, tks, duration) ==
    LET ud1 == get_draft(ud)
        draft == ud1["draft"]
    IN  IF FalsyStr(draft, "product") \/ ~product_valid(draft["product"])
        THEN Result(ud1, ords, tks, "Please select a product first.")
        ELSE IF ~duration_valid(draft["product"], duration)
        THEN Result(ud1, ords, tks, "Invalid duration. Please choose again.")
        ELSE Result(Put(ud1, "draft",
                        Pop(Pop(Pop(Put(draft, "duration", duration),
                            "account_type"), "details_text"), "details_file_id")),
                    ords, tks, "Select account type:")

any_account_valid(account_type) == TRUE

\* account_type in ACCOUNT_TYPES
account_valid(account_type) == account_type \in Range(ACCOUNT_TYPES)

on_account(ud, ords, tks, account_type) ==
    IF ~account_valid(account_type)
    THEN Result(ud, ords, tks, "Invalid account type. Please choose again.")
    ELSE LET ud1 == get_draft(ud)
             draft == ud1["draft"]
         IN  IF FalsyStr(draft, "product") \/ FalsyStr(draft, "duration")
             THEN Result(ud1, ords, tks, "Please select product and duration first.")
             ELSE Result(Put(Put(ud1, "draft",
                                 Pop(Pop(Put(draft, "account_type", account_type),
                                     "details_text"), "details_file_id")),
                             "mode", "order_details"),
                         ords, tks, "Send details (text) or upload photo")

\* any(not draft.get(key) for key in required)
required_missing(draft) ==
    \E key \in {"product", "duration", "account_type"} : FalsyStr(draft, key)

details_never_missing(draft) == FALSE

\* not draft.get("details_text") and not draft.get("details_file_id")
details_missing(draft) ==
    FalsyText(draft, "details_text") /\ FalsyId(draft, "details_file_id")

on_confirm_clears_late(ud, ords, tks, user_id) ==
    LET draft == IF "draft" \in DOMAIN ud THEN ud["draft"] ELSE EmptyDict
    IN  IF required_missing(draft)
        THEN Result(ud, ords, tks, "Order draft is incomplete. Please start again.")
        ELSE IF details_missing(draft)
        THEN Result(Put(ud, "mode", "order_details"), ords, tks,
                    "Please send details first (text or photo).")
        ELSE Result(ud,
                    save_order(ords, user_id, draft["product"], draft["duration"],
                               draft["account_type"], GetOpt(draft, "details_text"),
                               GetOpt(draft, "details_file_id")),
                    tks, "Order placed!")

on_confirm(ud, ords, tks, user_id) ==
    LET draft == IF "draft" \in DOMAIN ud THEN ud["draft"] ELSE EmptyDict
    IN  IF required_missing(draft)
        THEN Result(ud, ords, tks, "Order draft is incomplete. Please start again.")
        ELSE IF details_missing(draft)
        THEN Result(Put(ud, "mode", "order_details"), ords, tks,
                    "Please send details first (text or photo).")
        ELSE Result(clear_flow(ud),
                    save_order(ords, user_id, draft["product"], draft["duration"],
                               draft["account_type"], GetOpt(draft, "details_text"),
                               GetOpt(draft, "details_file_id")),
                    tks, "Order placed!")

on_confirm_claims_first(ud, ords, tks, user_id) ==
    [Result(ud, ords, tks, "Order placed!") EXCEPT !.error = "StorageError"]

\* on_confirm when the INSERT of save_order raises: the exception leaves the
\* handler before clear_flow and before any message is sent; on_error logs it.
on_confirm_storage_error(ud, ords, tks, user_id) ==
    [Result(ud, ords, tks, "") EXCEPT !.error = "StorageError"]

set_text_only(draft, details) == Put(draft, "details_text", Some(details))

\* draft["details_text"] = details; draft["details_file_id"] = None
set_text_detail(draft, details) ==
    Put(Put(draft, "details_text", Some(details)), "details_file_id", None)

\* draft["details_text"] = None; draft["details_file_id"] = photo[-1].file_id
set_photo_detail(draft, photo) ==
    Put(Put(draft, "details_text", None), "details_file_id", Some(photo[Len(photo)]))

support_stays_open(ud) == ud

\* after save_ticket: context.user_data.pop("mode", None)
end_support(ud) == Pop(ud, "mode")

not_support_mode(ud) == ~ModeIs(ud, "support")

\* mode == "order_details"
awaiting_details(ud) == ModeIs(ud, "order_details")

\* text is update.message.text (Optional), photo is update.message.photo
on_message(ud, ords, tks, user_id, text, photo) ==
    IF ModeIs(ud, "support")
    THEN LET ticket_text == Strip(IF text = None THEN <<>> ELSE text[1])
         IN  IF ticket_text = <<>>
             THEN Result(ud, ords, tks, "Please send your issue as text.")
             ELSE Result(end_support(ud), ords, save_ticket(tks, user_id, ticket_text),
                         "Support request sent!")
    ELSE IF awaiting_details(ud)
    THEN LET ud1 == get_draft(ud)
             draft == ud1["draft"]
         IN  IF text # None /\ text[1] # <<>>
             THEN LET details == Strip(text[1])
                  IN  IF details = <<>>
                      THEN Result(ud1, ords, tks,
                                  "Details cannot be empty. Send text or upload photo.")
                      ELSE Result(Pop(Put(ud1, "draft", set_text_detail(draft, details)),
                                      "mode"),
                                  ords, tks, "Order Confirmation")
             ELSE IF photo # <<>>
             THEN Result(Pop(Put(ud1, "draft", set_photo_detail(draft, photo)), "mode"),
                         ords, tks, "Order Confirmation")
             ELSE Result(ud1, ords, tks, "Please send details as text or upload a photo.")
    ELSE Result(ud, ords, tks, "Use /start to open the main menu.")

-----------------------------------------------------------------------------
(* Updates and their dispatch (build_application)                          *)

Command(u, name) ==
    [kind |-> "command", user |-> u, data |-> <<name>>, text |-> None, photo |-> <<>>]
Callback(u, cat, val) ==
    [kind |-> "callback", user |-> u, data |-> <<cat, val>>, text |-> None, photo |-> <<>>]
TextMessage(u, t) ==
    [kind |-> "message", user |-> u, data |-> <<>>, text |-> Some(t), photo |-> <<>>]
PhotoMessage(u, p) ==
    [kind |-> "message", user |-> u, data |-> <<>>, text |-> None, photo |-> p]

NoUpdate == [kind |-> "none", user |-> 0, data |-> <<>>, text |-> None, photo |-> <<>>]
NoScript == [evs |-> <<>>, pc |-> 1]

\* The handler an update is routed to, applied.
Dispatch(ud, ords, tks, upd) ==
    CASE upd.kind = "command" -> start(ud, ords, tks)
      [] upd.kind = "callback" /\ upd.data[1] = "menu" ->
            menu_router(ud, ords, tks, upd.user, upd.data[2])
      [] upd.kind = "callback" /\ upd.data[1] = "back" ->
            back_router(ud, ords, tks, upd.data[2])
      [] upd.kind = "callback" /\ upd.data[1] = "product" ->
            on_product(ud, ords, tks, upd.data[2])
      [] upd.kind = "callback" /\ upd.data[1] = "duration" ->
            on_duration(ud, ords, tks, upd.data[2])
      [] upd.kind = "callback" /\ upd.data[1] = "account" ->
            on_account(ud, ords, tks, upd.data[2])
      [] upd.kind = "callback" /\ upd.data = <<"order", "confirm">> ->
            on_confirm(ud, ords, tks, upd.user)
      [] upd.kind = "message" ->
            on_message(ud, ords, tks, upd.user, upd.text, upd.photo)

ApplyShared(upd, res) ==
    /\ Len(res.orders) > Len(orders) => Len(res.orders) <= MaxOrders
    /\ Len(res.tickets) > Len(tickets) => Len(res.tickets) <= MaxTickets
    /\ user_data' = [u \in DOMAIN user_data |-> res.ud]
    /\ orders' = res.orders
    /\ tickets' = res.tickets
    /\ update' = upd
    /\ reply' = res.reply
    /\ shown' = res.rows
    /\ error' = res.error
    /\ UNCHANGED tasks

\* The effects res of the handler of update upd, applied.  The tables grow
\* only up to the bounds.
Apply(upd, res) ==
    /\ Len(res.orders) > Len(orders) => Len(res.orders) <= MaxOrders
    /\ Len(res.tickets) > Len(tickets) => Len(res.tickets) <= MaxTickets
    /\ user_data' = [user_data EXCEPT ![upd.user] = res.ud]
    /\ orders' = res.orders
    /\ tickets' = res.tickets
    /\ update' = upd
    /\ reply' = res.reply
    /\ shown' = res.rows
    /\ error' = res.error
    /\ UNCHANGED tasks

\* One update handled to completion.
Deliver(upd) == Apply(upd, Dispatch(user_data[upd.user], orders, tickets, upd))

Free == script = NoScript /\ UNCHANGED script

-----------------------------------------------------------------------------
(* The bot serving any updates, in any order                               *)

Init ==
    /\ user_data = [u \in Users |-> EmptyDict]
    /\ orders = <<>>
    /\ tickets = <<>>
    /\ update = NoUpdate
    /\ reply = ""
    /\ shown = <<>>
    /\ error = ""
    /\ script = NoScript
    /\ tasks = <<>>

Start == \E u \in DOMAIN user_data : Free /\ Deliver(Command(u, "start"))

MenuRouter ==
    \E u \in DOMAIN user_data, a \in MenuActions : Free /\ Deliver(Callback(u, "menu", a))

BackRouter ==
    \E u \in DOMAIN user_data, a \in BackActions : Free /\ Deliver(Callback(u, "back", a))

OnProduct ==
    \E u \in DOMAIN user_data, p \in ClickProducts :
        Free /\ Deliver(Callback(u, "product", p))

OnDuration ==
    \E u \in DOMAIN user_data, d \in ClickDurations :
        Free /\ Deliver(Callback(u, "duration", d))

OnAccount ==
    \E u \in DOMAIN user_data, t \in ClickAccounts :
        Free /\ Deliver(Callback(u, "account", t))

OnConfirm == \E u \in DOMAIN user_data : Free /\ Deliver(Callback(u, "order", "confirm"))

\* order:confirm with a complete Draft, the storage layer failing the INSERT.
OnConfirmStorageError ==
    \E u \in DOMAIN user_data :
        LET draft == IF "draft" \in DOMAIN user_data[u] THEN user_data[u]["draft"] ELSE EmptyDict
        IN  /\ Free
            /\ ~required_missing(draft)
            /\ ~details_missing(draft)
            /\ Apply(Callback(u, "order", "confirm"),
                     on_confirm_storage_error(user_data[u], orders, tickets, u))

OnMessage ==
    \E u \in DOMAIN user_data :
        \/ \E t \in Texts : Free /\ Deliver(TextMessage(u, t))
        \/ \E p \in Photos : Free /\ Deliver(PhotoMessage(u, p))

Next ==
    \/ Start
    \/ MenuRouter
    \/ BackRouter
    \/ OnProduct
    \/ OnDuration
    \/ OnAccount
    \/ OnConfirm
    \/ OnConfirmStorageError
    \/ OnMessage

Spec == Init /\ [][Next]_vars

-----------------------------------------------------------------------------
(* The bot serving one scripted order flow of one user                     *)

\* Detail messages the flow accepts: a text that is not blank, or a photo.
DetailMessages(u) ==
    {TextMessage(u, t) : t \in {x \in Texts : Strip(x) # <<>>}}
        \cup {PhotoMessage(u, p) : p \in Photos}

OrderFlow(u, p, d, t, m) ==
    <<Callback(u, "menu", "order"), Callback(u, "product", p), Callback(u, "duration", d),
      Callback(u, "account", t), m, Callback(u, "order", "confirm")>>

InitOrder ==
    /\ user_data = [u \in Users |-> EmptyDict]
    /\ orders = <<>>
    /\ tickets = <<>>
    /\ update = NoUpdate
    /\ reply = ""
    /\ shown = <<>>
    /\ error = ""
    /\ tasks = <<>>
    /\ \E u \in Users, p \in DOMAIN CATALOG, t \in Range(ACCOUNT_TYPES) :
         \E d \in DOMAIN CATALOG[p], m \in DetailMessages(u) :
            script = [evs |-> OrderFlow(u, p, d, t, m), pc |-> 1]

ScriptStep ==
    /\ script.pc <= Len(script.evs)
    /\ Deliver(script.evs[script.pc])
    /\ script' = [script EXCEPT !.pc = @ + 1]

SpecOrder == InitOrder /\ [][ScriptStep]_vars

-----------------------------------------------------------------------------
(* Vocabulary of the properties                                            *)

\* The Draft of a user: what get_draft and on_confirm read; absent is empty.
DraftOf(ud) == IF "draft" \in DOMAIN ud THEN ud["draft"] ELSE EmptyDict

\* Idle: no mode set and nothing drafted.
Idle(ud) == "mode" \notin DOMAIN ud /\ DraftOf(ud) = EmptyDict

HasText(d) == ~FalsyText(d, "details_text")
HasFile(d) == ~FalsyId(d, "details_file_id")
HasDetail(d) == HasText(d) \/ HasFile(d)

IsCallback(upd, cat) == upd.kind = "callback" /\ upd.data[1] = cat
IsConfirm(upd) == upd.kind = "callback" /\ upd.data = <<"order", "confirm">>

Blank(t) == \A i \in DOMAIN t : t[i] = " "

\* s is t without its leading and trailing blanks, stated without Strip.
IsTrimOf(s, t) ==
    /\ s # <<>> => s[1] # " " /\ s[Len(s)] # " "
    /\ \E i \in 0..Len(t) :
          /\ i + Len(s) <= Len(t)
          /\ SubSeq(t, i + 1, i + Len(s)) = s
          /\ \A k \in 1..Len(t) : (k <= i \/ k > i + Len(s)) => t[k] = " "

-----------------------------------------------------------------------------
(* C1 *)

FlowDone == script.evs # <<>> /\ script.pc > Len(script.evs)

\* C1: the flow menu:order, product:p, duration:d, account:t, an accepted
\* detail message (a text that is not blank, or a photo), order:confirm, run
\* from Idle for any (p, d) of CATALOG and any t of ACCOUNT_TYPES, ends with
\* exactly one order row: of that user, pending, holding p, d, t and the detail
\* sent (the text trimmed, or the file id of the last photo size) and nothing
\* in the other detail column; no row exists before the confirmation.
C1_OrderFlowCreatesOneOrder ==
    script.evs # <<>> =>
        /\ ~FlowDone => orders = <<>>
        /\ FlowDone =>
              LET m == script.evs[5] IN
              /\ Len(orders) = 1
              /\ orders[1].user_id = script.evs[1].user
              /\ orders[1].status = "pending"
              /\ orders[1].product = script.evs[2].data[2]
              /\ orders[1].duration = script.evs[3].data[2]
              /\ orders[1].account_type = script.evs[4].data[2]
              /\ IF m.text # None
                 THEN /\ orders[1].details_file_id = None
                      /\ orders[1].details_text # None
                      /\ IsTrimOf(orders[1].details_text[1], m.text[1])
                 ELSE /\ orders[1].details_text = None
                      /\ orders[1].details_file_id = Some(m.photo[Len(m.photo)])

C1_Witness ==
    /\ FlowDone
    /\ Len(orders) = 1
    /\ orders[1].product = "ChatGPT Plus"
    /\ orders[1].duration = "7 days"
    /\ orders[1].account_type = "Premium"
    /\ orders[1].details_text # None
    /\ reply = "Order placed!"

-----------------------------------------------------------------------------
(* C2 *)

\* A required field is missing from the Draft.
Incomplete(d) ==
    \/ "product" \notin DOMAIN d
    \/ "duration" \notin DOMAIN d
    \/ "account_type" \notin DOMAIN d
    \/ ~HasDetail(d)

\* C2: an order:confirm handled while product, duration, account_type or the
\* detail is missing from the user's Draft leaves the orders table as it was.
C2_IncompleteConfirmCreatesNoOrder ==
    [][(IsConfirm(update') /\ Incomplete(DraftOf(user_data[update'.user])))
           => orders' = orders]_vars

C2_Witness ==
    /\ IsConfirm(update)
    /\ reply = "Please send details first (text or photo)."
    /\ {"product", "duration", "account_type"} \subseteq DOMAIN DraftOf(user_data[update.user])
    /\ orders = <<>>

-----------------------------------------------------------------------------
(* C3 *)

\* d is no duration of the drafted product, or no product is drafted.
ForeignDuration(draft, d) ==
    "product" \notin DOMAIN draft \/ d \notin DOMAIN CATALOG[draft["product"]]

\* C3: a duration:d click whose d does not belong to the drafted product (or
\* with no product drafted) is answered with a rejection and leaves the Draft
\* as it was, and handling the same click again changes nothing at all.
C3_ForeignDurationKeepsDraft ==
    [][(IsCallback(update', "duration")
            /\ ForeignDuration(DraftOf(user_data[update'.user]), update'.data[2]))
        => /\ reply' \in {"Please select a product first.",
                          "Invalid duration. Please choose again."}
           /\ DraftOf(user_data'[update'.user]) = DraftOf(user_data[update'.user])
           /\ Dispatch(user_data'[update'.user], orders', tickets', update').ud
                 = user_data'[update'.user]]_vars

C3_Witness ==
    /\ update.kind = "callback"
    /\ update.data = <<"duration", "90 days">>
    /\ reply = "Invalid duration. Please choose again."
    /\ "account_type" \in DOMAIN DraftOf(user_data[update.user])

-----------------------------------------------------------------------------
(* C4 *)

\* C4: a product:p click whose p is no key of CATALOG is answered with the
\* validation message and leaves the user's user_data (Draft and mode) as it was.
C4_UnknownProductKeepsState ==
    [][(IsCallback(update', "product") /\ update'.data[2] \notin DOMAIN CATALOG)
        => /\ reply' = "Invalid product. Please choose again."
           /\ user_data'[update'.user] = user_data[update'.user]]_vars

C4_Witness ==
    /\ update.kind = "callback"
    /\ update.data = <<"product", "Hulu">>
    /\ reply = "Invalid product. Please choose again."
    /\ ModeIs(user_data[update.user], "order_details")
    /\ HasDetail(DraftOf(user_data[update.user]))

-----------------------------------------------------------------------------
(* C5 *)

IsHome(upd) ==
    upd.kind = "command" \/ (upd.kind = "callback" /\ upd.data = <<"menu", "home">>)

\* C5: once menu:home or /start has been handled, the user is Idle: no mode
\* and no Draft, whatever the state it arrived in.
C5_HomeLeavesIdle == IsHome(update) => user_data[update.user] = EmptyDict

C5_Witness ==
    /\ update.kind = "callback"
    /\ update.data = <<"menu", "home">>
    /\ Idle(user_data[update.user])
    /\ orders # <<>>
    /\ tickets # <<>>

-----------------------------------------------------------------------------
(* C6 *)

\* C6: in every Draft, duration is set only if product is, account_type only
\* if duration is, and a detail only if account_type is.
C6_DraftOrdering ==
    \A u \in DOMAIN user_data :
        LET d == DraftOf(user_data[u]) IN
        /\ "duration" \in DOMAIN d => "product" \in DOMAIN d
        /\ "account_type" \in DOMAIN d => "duration" \in DOMAIN d
        /\ HasDetail(d) => "account_type" \in DOMAIN d

-----------------------------------------------------------------------------
(* C7 *)

\* C7: once an order:confirm has been rejected for a missing field (product,
\* duration, account_type or the detail), the user is Idle: the Draft is
\* cleared and no mode is set.
C7_RejectedConfirmLeavesIdle ==
    (IsConfirm(update)
        /\ reply \in {"Order draft is incomplete. Please start again.",
                      "Please send details first (text or photo)."})
    => Idle(user_data[update.user])

-----------------------------------------------------------------------------
(* C8 *)

\* C8: a text or photo message never writes an order; in mode support it
\* leaves the Draft alone and adds at most one ticket, of that user; in mode
\* order_details it adds no ticket and leaves product, duration and
\* account_type alone; with no mode it gets the generic menu reply and changes
\* neither user_data nor the tickets.
C8_MessageRoutedByMode ==
    [][update'.kind = "message" =>
        LET u == update'.user
            before == user_data[u]
            after == user_data'[u]
        IN  /\ orders' = orders
            /\ ModeIs(before, "support") =>
                  /\ DraftOf(after) = DraftOf(before)
                  /\ \/ tickets' = tickets
                     \/ /\ Len(tickets') = Len(tickets) + 1
                        /\ SubSeq(tickets', 1, Len(tickets)) = tickets
                        /\ tickets'[Len(tickets')].user_id = u
            /\ ModeIs(before, "order_details") =>
                  /\ tickets' = tickets
                  /\ \A k \in {"product", "duration", "account_type"} :
                        /\ k \in DOMAIN DraftOf(after) <=> k \in DOMAIN DraftOf(before)
                        /\ k \in DOMAIN DraftOf(before) => DraftOf(after)[k] = DraftOf(before)[k]
            /\ "mode" \notin DOMAIN before =>
                  /\ after = before
                  /\ tickets' = tickets
                  /\ reply' = "Use /start to open the main menu."]_vars

C8_Witness ==
    /\ update.kind = "message"
    /\ update.text = Some(<<" ", "a", " ">>)
    /\ reply = "Use /start to open the main menu."
    /\ "mode" \notin DOMAIN user_data[update.user]
    /\ "account_type" \in DOMAIN DraftOf(user_data[update.user])
    /\ ~HasDetail(DraftOf(user_data[update.user]))

-----------------------------------------------------------------------------
(* C9 *)

DetailExclusive ==
    /\ \A u \in DOMAIN user_data : ~(HasText(DraftOf(user_data[u])) /\ HasFile(DraftOf(user_data[u])))
    /\ \A i \in DOMAIN orders :
          ~(orders[i].details_text \notin {None, Some(<<>>)}
               /\ orders[i].details_file_id \notin {None, Some("")})

LastDetailWins ==
    (update'.kind = "message" /\ ModeIs(user_data[update'.user], "order_details")) =>
        LET d == DraftOf(user_data'[update'.user]) IN
        /\ (update'.text # None /\ ~Blank(update'.text[1])) =>
              /\ GetOpt(d, "details_file_id") = None
              /\ GetOpt(d, "details_text") # None
              /\ IsTrimOf(d["details_text"][1], update'.text[1])
        /\ (update'.text = None /\ update'.photo # <<>>) =>
              /\ GetOpt(d, "details_text") = None
              /\ GetOpt(d, "details_file_id") = Some(update'.photo[Len(update'.photo)])

\* C9: no Draft and no order row holds both a details_text and a
\* details_file_id; an accepted text leaves the trimmed text and no file id,
\* an accepted photo leaves the last photo size's file id and no text.
C9_DetailExclusive == []DetailExclusive /\ [][LastDetailWins]_vars

C9_Witness ==
    /\ update.kind = "message"
    /\ update.text # None
    /\ reply = "Order Confirmation"
    /\ HasText(DraftOf(user_data[update.user]))
    /\ orders # <<>>
    /\ orders[1].details_file_id # None

-----------------------------------------------------------------------------
(* C10 *)

\* C10: in mode order_details, a message with no photo whose text is absent or
\* blank is answered with a re-prompt; the Draft is as it was and the mode is
\* still order_details.
C10_BlankDetailReprompts ==
    [][(/\ update'.kind = "message"
        /\ ModeIs(user_data[update'.user], "order_details")
        /\ update'.photo = <<>>
        /\ (update'.text = None \/ Blank(update'.text[1])))
        => /\ reply' \in {"Details cannot be empty. Send text or upload photo.",
                          "Please send details as text or upload a photo."}
           /\ DraftOf(user_data'[update'.user]) = DraftOf(user_data[update'.user])
           /\ ModeIs(user_data'[update'.user], "order_details")]_vars

C10_Witness ==
    /\ update.kind = "message"
    /\ update.text = Some(<<" ">>)
    /\ reply = "Details cannot be empty. Send text or upload photo."
    /\ ModeIs(user_data[update.user], "order_details")
    /\ HasFile(DraftOf(user_data[update.user]))

-----------------------------------------------------------------------------
(* C11 *)

DraftFields == {"product", "duration", "account_type", "details_text", "details_file_id"}

\* The same keys of DraftFields are present in both Drafts, with the same values.
SameFields(d, e) ==
    \A k \in DraftFields :
        /\ k \in DOMAIN d <=> k \in DOMAIN e
        /\ k \in DOMAIN d => d[k] = e[k]

\* C11: a back:products, back:durations, back:account_types or back:details
\* click leaves product, duration, account_type, details_text and
\* details_file_id of the Draft as they were and writes no table; back:products,
\* and back:durations with no product drafted, answer with the product list
\* and leave the mode as it was too.
C11_BackKeepsFields ==
    [][IsCallback(update', "back") =>
        LET before == user_data[update'.user]
            after == user_data'[update'.user]
        IN  /\ SameFields(DraftOf(before), DraftOf(after))
            /\ orders' = orders
            /\ tickets' = tickets
            /\ (\/ update'.data[2] = "products"
                \/ (update'.data[2] = "durations" /\ "product" \notin DOMAIN DraftOf(before)))
               => /\ reply' = "Select a product:"
                  /\ "mode" \in DOMAIN after <=> "mode" \in DOMAIN before
                  /\ "mode" \in DOMAIN before => after["mode"] = before["mode"]]_vars

C11_Witness ==
    /\ update.kind = "callback"
    /\ update.data = <<"back", "details">>
    /\ ModeIs(user_data[update.user], "order_details")
    /\ {"product", "duration", "account_type"} \subseteq DOMAIN DraftOf(user_data[update.user])
    /\ HasFile(DraftOf(user_data[update.user]))

-----------------------------------------------------------------------------
(* C12 *)

\* C12: once an order:confirm has placed an order, the user has no Draft and
\* no mode, and the same order:confirm handled again in that state is answered
\* as incomplete and leaves the orders table as it is.
C12_ConfirmClearsFlow ==
    (IsConfirm(update) /\ reply = "Order placed!") =>
        LET again == Dispatch(user_data[update.user], orders, tickets, update) IN
        /\ user_data[update.user] = EmptyDict
        /\ again.orders = orders
        /\ again.reply = "Order draft is incomplete. Please start again."

C12_Witness ==
    /\ IsConfirm(update)
    /\ reply = "Order placed!"
    /\ error = ""
    /\ Len(orders) = 1
    /\ orders[1].details_file_id = Some("large")
    /\ Idle(user_data[update.user])

-----------------------------------------------------------------------------
(* C13 *)

\* C13: an order:confirm whose insert raises is answered with no 'Order
\* placed' message, adds no order row and leaves every user's user_data as it
\* was; and every step that sends 'Order placed' raised nothing and appended
\* exactly one row, of the confirming user, to the orders table.
C13_StorageErrorNoSuccess ==
    [][/\ (IsConfirm(update') /\ error' = "StorageError") =>
              /\ reply' # "Order placed!"
              /\ orders' = orders
              /\ user_data' = user_data
       /\ reply' = "Order placed!" =>
              /\ error' = ""
              /\ Len(orders') = Len(orders) + 1
              /\ SubSeq(orders', 1, Len(orders)) = orders
              /\ orders'[Len(orders')].user_id = update'.user]_vars

C13_Witness ==
    /\ IsConfirm(update)
    /\ error = "StorageError"
    /\ reply = ""
    /\ orders = <<>>
    /\ ~Incomplete(DraftOf(user_data[update.user]))
    /\ ModeIs(user_data[update.user], "order_details")

-----------------------------------------------------------------------------
(* The bot listing orders (menu:orders) over tables of up to MaxListed rows  *)

\* The table after n inserts, those numbered in others by user 2, the rest by
\* user 1.
RECURSIVE Inserted(_, _)
Inserted(n, others) ==
    IF n = 0 THEN <<>>
    ELSE save_order(Inserted(n - 1, others), IF n \in others THEN 2 ELSE 1,
                    "Netflix", "30 days", "VIP", Some(<<"a">>), None)

InitList ==
    /\ user_data = [u \in TwoUsers |-> EmptyDict]
    /\ tickets = <<>>
    /\ update = NoUpdate
    /\ reply = ""
    /\ shown = <<>>
    /\ error = ""
    /\ script = NoScript
    /\ tasks = <<>>
    /\ \E n \in 0..MaxListed : \E a, b \in 0..n : orders = Inserted(n, {a, b})

ListOrders == \E u \in DOMAIN user_data : Free /\ Deliver(Callback(u, "menu", "orders"))

SpecList == InitList /\ [][ListOrders]_vars

-----------------------------------------------------------------------------
(* C14 *)

IdsOf(ords, u) == {ords[i].id : i \in {j \in DOMAIN ords : ords[j].user_id = u}}

\* C14: the rows menu:orders lists for user u are rows of u only, at most 20,
\* in strictly descending id order, as many as u has up to 20, and every row of
\* u left out has a smaller id than every row listed (so with more than 20 rows
\* they are the 20 with the largest ids).
C14_ListsLatestTwenty ==
    (update.kind = "callback" /\ update.data = <<"menu", "orders">>) =>
        LET mine == IdsOf(orders, update.user)
            listed == {shown[i].id : i \in DOMAIN shown}
        IN  /\ Len(shown) <= 20
            /\ listed \subseteq mine
            /\ \A i, j \in DOMAIN shown : i < j => shown[i].id > shown[j].id
            /\ Len(shown) = IF Cardinality(mine) > 20 THEN 20 ELSE Cardinality(mine)
            /\ \A k \in mine \ listed : \A l \in listed : k < l

C14_Witness ==
    /\ update.kind = "callback"
    /\ update.data = <<"menu", "orders">>
    /\ update.user = 1
    /\ Cardinality(IdsOf(orders, 1)) = 21
    /\ Cardinality(IdsOf(orders, 2)) = 1
    /\ orders[Len(orders)].user_id = 2
    /\ Len(shown) = 20
    /\ shown[1].id = 21
    /\ shown[20].id = 2

-----------------------------------------------------------------------------
(* C15 *)

\* C15: every order row carries a price, equal to CATALOG[product][duration]
\* of its product and duration.
C15_OrderCarriesCatalogPrice ==
    \A i \in DOMAIN orders :
        /\ "price" \in DOMAIN orders[i]
        /\ orders[i].price = CATALOG[orders[i].product][orders[i].duration]

-----------------------------------------------------------------------------
(* C16 *)

-----------------------------------------------------------------------------
(* C17 *)

\* Product p with duration d (and account type t) is an offer of the catalog.
InCatalog(p, d) == p \in DOMAIN CATALOG /\ d \in DOMAIN CATALOG[p]

\* C17: every order row holds a product of CATALOG, a duration of that
\* product and an account type of ACCOUNT_TYPES; and in every Draft a drafted
\* product is of CATALOG, a drafted duration comes with a product and belongs
\* to it, and a drafted account type is of ACCOUNT_TYPES.
C17_CatalogValid ==
    /\ \A i \in DOMAIN orders :
          /\ InCatalog(orders[i].product, orders[i].duration)
          /\ orders[i].account_type \in {"Basic", "Premium", "VIP"}
    /\ \A u \in DOMAIN user_data :
          LET d == DraftOf(user_data[u]) IN
          /\ "product" \in DOMAIN d => d["product"] \in DOMAIN CATALOG
          /\ "duration" \in DOMAIN d =>
                "product" \in DOMAIN d /\ InCatalog(d["product"], d["duration"])
          /\ "account_type" \in DOMAIN d => d["account_type"] \in {"Basic", "Premium", "VIP"}

C17_Witness ==
    /\ Len(orders) = 1
    /\ orders[1].product = "Spotify"
    /\ IsCallback(update, "duration")
    /\ update.data[2] = "90 days"
    /\ reply = "Invalid duration. Please choose again."
    /\ {"product", "duration", "account_type"} \subseteq DOMAIN DraftOf(user_data[update.user])
    /\ DraftOf(user_data[update.user])["product"] = "Netflix"
    /\ DraftOf(user_data[update.user])["duration"] = "30 days"

-----------------------------------------------------------------------------
(* C18 *)

\* C18: menu:support sets mode support.  In mode support a message whose text
\* is not blank appends exactly one ticket, open, of that user, holding the
\* trimmed text, and clears the mode, after which no text message of that user
\* would add a ticket; a message with no text or a blank one (a photo) adds no
\* ticket and leaves the mode support.
C18_SupportFlow ==
    [][LET u == update'.user
           before == user_data[u]
           after == user_data'[u]
       IN  /\ (update'.kind = "callback" /\ update'.data = <<"menu", "support">>)
                  => ModeIs(after, "support")
           /\ (update'.kind = "message" /\ ModeIs(before, "support")) =>
                  IF update'.text # None /\ ~Blank(update'.text[1])
                  THEN /\ Len(tickets') = Len(tickets) + 1
                       /\ SubSeq(tickets', 1, Len(tickets)) = tickets
                       /\ tickets'[Len(tickets')].status = "open"
                       /\ tickets'[Len(tickets')].user_id = u
                       /\ tickets'[Len(tickets')].id = Len(tickets')
                       /\ IsTrimOf(tickets'[Len(tickets')].message_text, update'.text[1])
                       /\ "mode" \notin DOMAIN after
                       /\ \A t \in Texts :
                             Dispatch(after, orders', tickets', TextMessage(u, t)).tickets
                                = tickets'
                  ELSE /\ tickets' = tickets
                       /\ ModeIs(after, "support")]_vars

C18_Witness ==
    /\ update.kind = "message"
    /\ update.text = Some(<<" ", "a", " ">>)
    /\ reply = "Support request sent!"
    /\ Len(tickets) = 1
    /\ tickets[1].message_text = <<"a">>
    /\ tickets[1].status = "open"
    /\ "mode" \notin DOMAIN user_data[update.user]
    /\ HasFile(DraftOf(user_data[update.user]))

-----------------------------------------------------------------------------
(* The bot serving two users, their updates interleaved in any order        *)

\* What user u clicks and sends: each user drafts a product and a detail of
\* their own.
UpdatesOf(u) ==
    {Callback(u, "menu", "order"), Callback(u, "menu", "home"),
     Callback(u, "menu", "support"), Callback(u, "back", "details"),
     Callback(u, "product", IF u = 1 THEN "Netflix" ELSE "Spotify"),
     Callback(u, "duration", "30 days"),
     Callback(u, "account", IF u = 1 THEN "VIP" ELSE "Basic"),
     Callback(u, "order", "confirm"),
     IF u = 1 THEN TextMessage(u, <<" ", "a", " ">>) ELSE PhotoMessage(u, <<"small", "large">>)}

InitTwo ==
    /\ user_data = [u \in TwoUsers |-> EmptyDict]
    /\ orders = <<>>
    /\ tickets = <<>>
    /\ update = NoUpdate
    /\ reply = ""
    /\ shown = <<>>
    /\ error = ""
    /\ script = NoScript
    /\ tasks = <<>>

ServeTwo == \E u \in DOMAIN user_data : \E upd \in UpdatesOf(u) : Free /\ Deliver(upd)

SpecTwo == InitTwo /\ [][ServeTwo]_vars

-----------------------------------------------------------------------------
(* C19 *)

\* C19: with two users served in any interleaving, an update of one user
\* leaves the user_data (Draft and mode) of every other user as it was, and an
\* order row added by an order:confirm carries the confirming user's id and
\* the product, duration, account type and details of that user's Draft.
C19_UserIsolation ==
    [][LET a == update'.user
           draft == DraftOf(user_data[a])
       IN  /\ \A b \in DOMAIN user_data \ {a} : user_data'[b] = user_data[b]
           /\ Len(orders') > Len(orders) =>
                 /\ IsConfirm(update')
                 /\ SubSeq(orders', 1, Len(orders)) = orders
                 /\ Len(orders') = Len(orders) + 1
                 /\ orders'[Len(orders')].user_id = a
                 /\ {"product", "duration", "account_type"} \subseteq DOMAIN draft
                 /\ orders'[Len(orders')].product = draft["product"]
                 /\ orders'[Len(orders')].duration = draft["duration"]
                 /\ orders'[Len(orders')].account_type = draft["account_type"]
                 /\ orders'[Len(orders')].details_text = GetOpt(draft, "details_text")
                 /\ orders'[Len(orders')].details_file_id = GetOpt(draft, "details_file_id")]_vars

C19_Witness ==
    /\ DOMAIN user_data = TwoUsers
    /\ IsConfirm(update)
    /\ update.user = 1
    /\ reply = "Order placed!"
    /\ Len(orders) = 1
    /\ orders[1].user_id = 1
    /\ orders[1].product = "Netflix"
    /\ orders[1].details_text = Some(<<"a">>)
    /\ ModeIs(user_data[2], "order_details")
    /\ ~Incomplete(DraftOf(user_data[2]))
    /\ DraftOf(user_data[2])["product"] = "Spotify"
    /\ HasFile(DraftOf(user_data[2]))

-----------------------------------------------------------------------------
(* order:confirm clicks of one user handled as concurrent coroutines, which  *)
(* switch only where on_confirm awaits                                       *)

\* The complete Drafts: any product and duration of CATALOG, any of
\* ACCOUNT_TYPES, a text or a photo as the detail.
CompleteDrafts ==
    {LET chosen == Put(Put(Put(EmptyDict, "product", p), "duration", d), "account_type", t)
     IN  IF photo THEN set_photo_detail(chosen, <<"small", "large">>)
                  ELSE set_text_detail(chosen, <<"a">>) :
        p \in DOMAIN CATALOG, d \in {"1 day", "7 days", "30 days"},
        t \in Range(ACCOUNT_TYPES), photo \in BOOLEAN}

\* A coroutine of on_confirm: where it stands, and the text it is to send.
Coroutine(pc, text) == [pc |-> pc, text |-> text]

InitConfirm ==
    /\ \E draft \in CompleteDrafts, waiting \in BOOLEAN :
          user_data = [u \in Users |->
                          IF waiting
                          THEN Put(Put(EmptyDict, "draft", draft), "mode", "order_details")
                          ELSE Put(EmptyDict, "draft", draft)]
    /\ orders = <<>>
    /\ tickets = <<>>
    /\ update = NoUpdate
    /\ reply = ""
    /\ shown = <<>>
    /\ error = ""
    /\ script = NoScript
    /\ tasks = [t \in 1..MaxConfirms |-> Coroutine("answer", "")]

\* await query.answer()
ConfirmAnswer ==
    \E t \in DOMAIN tasks :
        /\ tasks[t].pc = "answer"
        /\ tasks' = [tasks EXCEPT ![t] = Coroutine("body", "")]
        /\ UNCHANGED <<user_data, orders, tickets, update, reply, shown, error, script>>

\* From the read of the Draft up to the next await, in one piece.
ConfirmBody ==
    \E t \in DOMAIN tasks, u \in DOMAIN user_data :
        LET res == on_confirm(user_data[u], orders, tickets, u)
        IN  /\ tasks[t].pc = "body"
            /\ user_data' = [user_data EXCEPT ![u] = res.ud]
            /\ orders' = res.orders
            /\ tickets' = res.tickets
            /\ tasks' = [tasks EXCEPT ![t] = Coroutine("send", res.reply)]
            /\ UNCHANGED <<update, reply, shown, error, script>>

\* await safe_edit_or_send(...), after which the coroutine returns
ConfirmSend ==
    \E t \in DOMAIN tasks, u \in DOMAIN user_data :
        /\ tasks[t].pc = "send"
        /\ update' = Callback(u, "order", "confirm")
        /\ reply' = tasks[t].text
        /\ tasks' = [tasks EXCEPT ![t] = Coroutine("done", tasks[t].text)]
        /\ UNCHANGED <<user_data, orders, tickets, shown, error, script>>

NextConfirm ==
    \/ ConfirmAnswer
    \/ ConfirmBody
    \/ ConfirmSend

SpecConfirm == InitConfirm /\ [][NextConfirm]_vars

-----------------------------------------------------------------------------
(* C20 *)

Placed == {t \in DOMAIN tasks : tasks[t].text = "Order placed!"}

\* C20: while order:confirm clicks of one user with a complete Draft are
\* handled as coroutines interleaved at their awaits, at most one order row
\* exists and at most one coroutine answers 'Order placed'; every coroutine
\* past its body that did not place the order found the Draft incomplete, and
\* once one is past its body there is exactly one row and no Draft.
C20_ConcurrentConfirmsOneOrder ==
    tasks # <<>> =>
        /\ Len(orders) <= 1
        /\ Cardinality(Placed) = Len(orders)
        /\ \A t \in DOMAIN tasks :
              tasks[t].pc \in {"send", "done"} =>
                 /\ Len(orders) = 1
                 /\ \A u \in DOMAIN user_data : user_data[u] = EmptyDict
                 /\ tasks[t].text \in {"Order placed!",
                                       "Order draft is incomplete. Please start again."}

C20_Witness ==
    /\ DOMAIN tasks = 1..MaxConfirms
    /\ tasks[1].pc = "send"
    /\ tasks[1].text = "Order placed!"
    /\ tasks[2].pc = "send"
    /\ tasks[2].text = "Order draft is incomplete. Please start again."
    /\ Len(orders) = 1
    /\ orders[1].product = "ChatGPT Plus"
    /\ orders[1].details_file_id = Some("large")

-----------------------------------------------------------------------------
(* C21 *)

\* Key k is present in both Drafts with the same value, or absent from both.
SameKey(d, e, k) ==
    /\ k \in DOMAIN d <=> k \in DOMAIN e
    /\ k \in DOMAIN d => d[k] = e[k]

NoDetail(d) == "details_text" \notin DOMAIN d /\ "details_file_id" \notin DOMAIN d

\* C21: an accepted product:p leaves a Draft holding product p and nothing
\* else; an accepted duration:d leaves the product, holds duration d and no
\* account_type or detail; an accepted account:t leaves product and duration,
\* holds account_type t and no detail, and sets mode order_details.  So no
\* step of any kind changes product or duration and leaves an account_type or
\* a detail in the Draft, or changes account_type and leaves a detail; and a
\* row added to orders holds the fields of the Draft as it was at the confirm.
C21_SelectionResetsLaterSteps ==
    [][LET u == update'.user
           before == DraftOf(user_data[u])
           after == DraftOf(user_data'[u])
       IN  /\ (IsCallback(update', "product") /\ reply' = "Select duration:") =>
                 /\ DOMAIN after = {"product"}
                 /\ after["product"] = update'.data[2]
           /\ (IsCallback(update', "duration") /\ reply' = "Select account type:") =>
                 /\ DOMAIN after = {"product", "duration"}
                 /\ after["duration"] = update'.data[2]
                 /\ SameKey(before, after, "product")
           /\ (IsCallback(update', "account")
                  /\ reply' = "Send details (text) or upload photo") =>
                 /\ DOMAIN after = {"product", "duration", "account_type"}
                 /\ after["account_type"] = update'.data[2]
                 /\ SameKey(before, after, "product")
                 /\ SameKey(before, after, "duration")
                 /\ ModeIs(user_data'[u], "order_details")
           /\ (~SameKey(before, after, "product") \/ ~SameKey(before, after, "duration")) =>
                 "account_type" \notin DOMAIN after /\ NoDetail(after)
           /\ ~SameKey(before, after, "account_type") => NoDetail(after)
           /\ Len(orders') > Len(orders) =>
                 /\ {"product", "duration", "account_type"} \subseteq DOMAIN before
                 /\ orders'[Len(orders')].product = before["product"]
                 /\ orders'[Len(orders')].duration = before["duration"]
                 /\ orders'[Len(orders')].account_type = before["account_type"]
                 /\ orders'[Len(orders')].details_text = GetOpt(before, "details_text")
                 /\ orders'[Len(orders')].details_file_id = GetOpt(before, "details_file_id")]_vars

C21_Witness ==
    /\ update.kind = "callback"
    /\ update.data = <<"duration", "30 days">>
    /\ reply = "Select account type:"
    /\ DOMAIN DraftOf(user_data[update.user]) = {"product", "duration"}
    /\ DraftOf(user_data[update.user])["product"] = "Spotify"
    /\ ModeIs(user_data[update.user], "order_details")
    /\ Len(orders) = 1
    /\ orders[1].product = "Netflix"

====
